---- MODULE Spec2Model ----
(***************************************************************************)
(* TRPO / NPG training (src/Algorithms/trpo/trpo.py) and the diagnostic    *)
(* logger (src/Logger/logger.py).                                          *)
(*                                                                         *)
(* Four specifications share the variables below:                          *)
(*   Spec            TRPO.learn() from its first line, calling update()    *)
(*                   at the end of every epoch;                            *)
(*   SpecLineSearch  the part of TRPO.update() from line 206 on (snapshot, *)
(*                   NPG step or backtracking line search, value refit),   *)
(*                   started from arbitrary values of the locals computed  *)
(*                   by lines 184-205;                                     *)
(*   SpecParams      flat_params / update_model on arbitrary parameter     *)
(*                   sets and flat vectors;                                *)
(*   SpecLogger      Logger.store / dump / load_results / re-construction. *)
(***************************************************************************)
EXTENDS Integers, Sequences, FiniteSets, TLC

VARIABLES
    \* ---- TRPO.learn locals and hyperparameters
    pc,              \* position in learn() / update()
    err,             \* exception that ended the run, or "none"
    steps_per_epoch, \* self.steps_per_epoch
    max_ep_len,      \* self.max_ep_len
    epochs,          \* local epochs of learn()
    epoch, t,        \* the two loop counters of learn()
    obs,             \* local obs of learn()
    state,           \* local state of learn() (line 301)
    ep_len,          \* local ep_len
    done, timeout, epoch_ended,   \* locals of the current iteration
    \* ---- environment
    env_obs,         \* the observation the last env.reset()/env.step() returned
    \* ---- GAEBuffer
    ptr, path_start,
    \* ---- history of the calls learn() makes
    query,           \* last ac.step query of line 275: [obs, env]
    boot,            \* last finish_path call: [called, kind, of, done, timeout, epoch_ended]
    n_store,         \* buffer.store calls since the last buffer.get()
    n_since_finish,  \* buffer.store calls since the last finish_path()
    n_update,        \* update() calls made in the current epoch
    at_get,          \* buffer state seen by the last buffer.get(): [called, ptr, path_start, n_store]
    phases,          \* phases update() has passed through
    \* ---- TRPO.update locals and policy parameters
    algo, backtrack_iters, train_v_iters,
    pi, pi_old,      \* parameter sets of self.ac.pi and self.ac.pi_old
    old_params, step_size, search_dir,
    i,               \* line-search loop counter
    attempts,        \* line-search attempts so far: [params, kl_ok, improve_pos]
    accepted,        \* index of the accepted attempt, or -1
    entry_params,    \* flat parameters of pi when update() began
    v_steps,         \* v_optimizer.step() calls
    \* ---- flat_params / update_model harness
    vec,             \* flat vector passed to update_model
    before,          \* parameter set before the call
    ret,             \* result of the last call
    \* ---- Logger
    logger_dict,     \* self.logger_dict
    file,            \* pickled dictionary at output_filepath: [exists, dict, hist]
    hist,            \* every value stored under each key, in call order
    load_out         \* result of the last load_results call

learnVars == <<pc, err, steps_per_epoch, max_ep_len, epochs, epoch, t, obs, state,
               ep_len, done, timeout, epoch_ended, env_obs, ptr, path_start,
               query, boot, n_store, n_since_finish, n_update, at_get, phases>>
updVars   == <<algo, backtrack_iters, train_v_iters, pi, pi_old, old_params,
               step_size, search_dir, i, attempts, accepted, entry_params, v_steps>>
parVars   == <<vec, before, ret>>
logVars   == <<logger_dict, file, hist, load_out>>
vars      == <<learnVars, updVars, parVars, logVars>>

----------------------------------------------------------------------------
\* Bounds of the model.
MaxSteps    == 3    \* steps_per_epoch ranges over 1..MaxSteps
MaxEpLen    == 4    \* max_ep_len ranges over 1..MaxEpLen
MaxEpochs   == 2    \* epochs ranges over 0..MaxEpochs
NumObs      == 2    \* observations are 0..NumObs-1

Obs == 0 .. (NumObs - 1)
NoObs == NumObs     \* a value no observation takes

----------------------------------------------------------------------------
\* Values of the variables a specification does not use.
IdleLearn ==
    /\ err = "none"
    /\ steps_per_epoch = 1 /\ max_ep_len = 1 /\ epochs = 0
    /\ epoch = 0 /\ t = 0
    /\ obs = NoObs /\ state = NoObs /\ env_obs = NoObs
    /\ ep_len = 0
    /\ done = FALSE /\ timeout = FALSE /\ epoch_ended = FALSE
    /\ ptr = 0 /\ path_start = 0
    /\ query = [obs |-> NoObs, env |-> NoObs]
    /\ boot = [called |-> FALSE, kind |-> "none", of |-> NoObs, next |-> NoObs,
               done |-> FALSE, timeout |-> FALSE, epoch_ended |-> FALSE,
               stores |-> 0]
    /\ n_store = 0 /\ n_since_finish = 0 /\ n_update = 0
    /\ at_get = [called |-> FALSE, ptr |-> 0, path_start |-> 0, n_store |-> 0, t |-> 0]
    /\ phases = <<>>

IdleUpdate ==
    /\ algo = "trpo" /\ backtrack_iters = 0 /\ train_v_iters = 0
    /\ pi = <<>> /\ pi_old = <<>>
    /\ old_params = <<>> /\ step_size = 0 /\ search_dir = <<>>
    /\ i = 0 /\ attempts = <<>> /\ accepted = -1
    /\ entry_params = <<>> /\ v_steps = 0

NoRet == [op |-> "none", status |-> "none", value |-> <<>>]
IdleParams == vec = <<>> /\ before = <<>> /\ ret = NoRet

EmptyDict == [k \in {} |-> <<>>]
NoFile == [exists |-> FALSE, dict |-> EmptyDict, hist |-> <<>>]
NoLoad == [status |-> "none", keys |-> <<>>, output |-> <<>>, seen |-> <<>>]
IdleLogger ==
    /\ logger_dict = EmptyDict /\ file = NoFile /\ hist = <<>> /\ load_out = NoLoad

----------------------------------------------------------------------------
\* GAEBuffer (gae_buffer.py): the write pointer and the start of the current path.

\* The capacity is steps_per_epoch (trpo.py line 97).

\* store(obs, act, rew, val, logp): fails when the buffer is full, else
\* appends one step at the write pointer.
BufferStoreOk == ptr < steps_per_epoch
BufferStore == ptr' = ptr + 1

\* finish_path(last_val): the path [path_start, ptr) is closed.
BufferFinishPath == path_start' = ptr

\* get(): requires a full buffer, and resets it.
BufferGetOk == ptr = steps_per_epoch
BufferGet == ptr' = 0 /\ path_start' = 0

----------------------------------------------------------------------------
\* TRPO.hessian_vector_product(self, obs, p): the positional arguments it takes
\* besides self.
hessian_vector_product_arity == 2

\* A call of hessian_vector_product with nargs positional arguments.
CallHVP(nargs) == IF nargs = hessian_vector_product_arity THEN "ok" ELSE "TypeError"

\* cg(): every iteration calls self.hessian_vector_product(obs, p).
cg == CallHVP(2)

----------------------------------------------------------------------------
\* TRPO.learn

\* for t in range(self.steps_per_epoch): t is the loop's last value.
LastIterationOff(tt) == tt = steps_per_epoch
LastIteration(tt) == tt = steps_per_epoch - 1

\* epoch_ended = t==self.steps_per_epoch-1
EpochEndedOff(tt) == tt = steps_per_epoch
EpochEnded(tt) == tt = steps_per_epoch - 1

\* The bootstrap value of lines 290-293.
BootstrapKind(d, to, ee) == IF to \/ ee THEN "critic" ELSE "zero"

\* Where the loops of lines 272-273 go after the iteration with counter tt.
AfterIteration(tt) ==
    IF LastIteration(tt)
    THEN /\ pc' = "update"
         /\ t' = tt
    ELSE /\ pc' = "collect"
         /\ t' = tt + 1

\* Lines 266-272: obs = env.reset(), then the epoch loop is entered.
LearnStart ==
    /\ pc = "start"
    /\ \E o \in Obs :
         /\ env_obs' = o
         /\ obs' = o
    /\ ep_len' = 0
    /\ pc' = IF epochs > 0 THEN "collect" ELSE "finished"
    /\ UNCHANGED <<err, steps_per_epoch, max_ep_len, epochs, epoch, t, state,
                   done, timeout, epoch_ended, ptr, path_start, query, boot,
                   n_store, n_since_finish, n_update, at_get, phases>>
    /\ UNCHANGED <<updVars, parVars, logVars>>

\* Lines 275-286: query the policy, step the environment, store, compute flags.
CollectStep ==
    /\ pc = "collect"
    /\ query' = [obs |-> obs, env |-> env_obs]
    /\ \E next_obs \in Obs, d \in BOOLEAN :
         /\ env_obs' = next_obs
         /\ ep_len' = ep_len + 1
         /\ IF BufferStoreOk
            THEN /\ BufferStore
                 /\ n_store' = n_store + 1
                 /\ n_since_finish' = n_since_finish + 1
                 /\ obs' = next_obs
                 /\ done' = d
                 /\ timeout' = (ep_len' = max_ep_len)
                 /\ epoch_ended' = EpochEnded(t)
                 /\ err' = err
                 /\ IF (d \/ timeout') \/ epoch_ended'
                    THEN pc' = "end_path" /\ t' = t
                    ELSE AfterIteration(t)
            ELSE /\ pc' = "raised"
                 /\ err' = "AssertionError:store"
                 /\ UNCHANGED <<ptr, n_store, n_since_finish, obs, done, timeout,
                                epoch_ended, t>>
    /\ UNCHANGED <<steps_per_epoch, max_ep_len, epochs, epoch, state, path_start,
                   boot, n_update, at_get, phases>>
    /\ UNCHANGED <<updVars, parVars, logVars>>

\* Lines 289-301: bootstrap, finish_path, reset.
EndPath ==
    /\ pc = "end_path"
    /\ boot' = [called |-> TRUE,
                kind |-> BootstrapKind(done, timeout, epoch_ended),
                of |-> obs, next |-> env_obs,
                done |-> done, timeout |-> timeout, epoch_ended |-> epoch_ended,
                stores |-> n_since_finish]
    /\ BufferFinishPath
    /\ n_since_finish' = 0
    /\ \E o \in Obs :
         /\ env_obs' = o
         /\ state' = o
    /\ ep_len' = 0
    /\ AfterIteration(t)
    /\ UNCHANGED <<err, steps_per_epoch, max_ep_len, epochs, epoch, obs, done,
                   timeout, epoch_ended, ptr, query, n_store, n_update, at_get,
                   phases>>
    /\ UNCHANGED <<updVars, parVars, logVars>>

----------------------------------------------------------------------------
\* TRPO.update, lines 184-205

\* Line 306 calls update(); line 184: data = self.buffer.get().
UpdateGet ==
    /\ pc = "update"
    /\ n_update' = n_update + 1
    /\ at_get' = [called |-> TRUE, ptr |-> ptr, path_start |-> path_start,
                  n_store |-> n_store, t |-> t]
    /\ phases' = <<>>
    /\ IF BufferGetOk
       THEN /\ BufferGet
            /\ n_store' = 0
            /\ pc' = "compute_gradient"
            /\ err' = err
       ELSE /\ pc' = "raised"
            /\ err' = "AssertionError:get"
            /\ UNCHANGED <<ptr, path_start, n_store>>
    /\ UNCHANGED <<steps_per_epoch, max_ep_len, epochs, epoch, t, obs, state,
                   ep_len, done, timeout, epoch_ended, env_obs, query, boot,
                   n_since_finish>>
    /\ UNCHANGED <<updVars, parVars, logVars>>

\* Lines 185-200: surrogate objective and its flat gradient.
ComputeGradient ==
    /\ pc = "compute_gradient"
    /\ phases' = Append(phases, "COMPUTE_GRADIENT")
    /\ pc' = "solve_direction"
    /\ UNCHANGED <<err, steps_per_epoch, max_ep_len, epochs, epoch, t, obs, state,
                   ep_len, done, timeout, epoch_ended, env_obs, ptr, path_start,
                   query, boot, n_store, n_since_finish, n_update, at_get>>
    /\ UNCHANGED <<updVars, parVars, logVars>>

\* Line 203: search_dir = self.cg(obs, gradient.data, act).
SolveDirection ==
    /\ pc = "solve_direction"
    /\ phases' = Append(phases, "SOLVE_DIRECTION")
    /\ IF cg = "ok"
       THEN pc' = "compute_step" /\ err' = err
       ELSE pc' = "raised" /\ err' = cg
    /\ UNCHANGED <<steps_per_epoch, max_ep_len, epochs, epoch, t, obs, state,
                   ep_len, done, timeout, epoch_ended, env_obs, ptr, path_start,
                   query, boot, n_store, n_since_finish, n_update, at_get>>
    /\ UNCHANGED <<updVars, parVars, logVars>>

\* Lines 204-205: gHg = (self.hessian_vector_product(obs, search_dir, act) * ...),
\* a call with three arguments.  Were the call to return, update() would go on
\* at line 206, which SpecLineSearch covers.
ComputeStep ==
    /\ pc = "compute_step"
    /\ phases' = Append(phases, "COMPUTE_STEP")
    /\ IF CallHVP(3) = "ok"
       THEN pc' = "snapshot" /\ err' = err
       ELSE pc' = "raised" /\ err' = CallHVP(3)
    /\ UNCHANGED <<steps_per_epoch, max_ep_len, epochs, epoch, t, obs, state,
                   ep_len, done, timeout, epoch_ended, env_obs, ptr, path_start,
                   query, boot, n_store, n_since_finish, n_update, at_get>>
    /\ UNCHANGED <<updVars, parVars, logVars>>

----------------------------------------------------------------------------
\* learn() as a whole program.
Init ==
    /\ pc = "start" /\ err = "none"
    /\ steps_per_epoch \in 1 .. MaxSteps
    /\ max_ep_len \in 1 .. MaxEpLen
    /\ epochs \in 0 .. MaxEpochs
    /\ epoch = 0 /\ t = 0
    /\ obs = NoObs /\ state = NoObs /\ env_obs = NoObs
    /\ ep_len = 0
    /\ done = FALSE /\ timeout = FALSE /\ epoch_ended = FALSE
    /\ ptr = 0 /\ path_start = 0
    /\ query = [obs |-> NoObs, env |-> NoObs]
    /\ boot = [called |-> FALSE, kind |-> "none", of |-> NoObs, next |-> NoObs,
               done |-> FALSE, timeout |-> FALSE, epoch_ended |-> FALSE,
               stores |-> 0]
    /\ n_store = 0 /\ n_since_finish = 0 /\ n_update = 0
    /\ at_get = [called |-> FALSE, ptr |-> 0, path_start |-> 0, n_store |-> 0, t |-> 0]
    /\ phases = <<>>
    /\ IdleUpdate /\ IdleParams /\ IdleLogger

Next == LearnStart \/ CollectStep \/ EndPath \/ UpdateGet \/ ComputeGradient
          \/ SolveDirection \/ ComputeStep

Spec == Init /\ [][Next]_vars

----------------------------------------------------------------------------
\* Parameter sets: a sequence of tensors in registry order, each a shape and
\* its elements in row-major order.
MaxTensors == 2     \* parameter sets hold 0..MaxTensors tensors
MaxVecLen  == 4     \* flat vectors hold 0..MaxVecLen elements

Vals   == {0, 1}
Shapes == {<<0>>, <<1>>, <<2>>, <<1, 2>>, <<2, 1>>}

RECURSIVE numel(_)
\* Number of elements of a tensor of the given shape.
numel(shape) == IF shape = <<>> THEN 1 ELSE Head(shape) * numel(Tail(shape))

Tensors == UNION {[shape : {sh}, data : [1 .. numel(sh) -> Vals]] : sh \in Shapes}
ParamSets == UNION {[1 .. n -> Tensors] : n \in 0 .. MaxTensors}
FlatVecs == UNION {[1 .. n -> Vals] : n \in 0 .. MaxVecLen}

Min(a, b) == IF a < b THEN a ELSE b

\* v[a:b] of Python and torch, 0-based, clamped to the length of v.
Slice(v, a, b) == SubSeq(v, Min(a, Len(v)) + 1, Min(b, Len(v)))

RECURSIVE Cat(_)
\* torch.cat of the flattened tensors.
Cat(model) == IF model = <<>> THEN <<>> ELSE Head(model).data \o Cat(Tail(model))

\* TRPO.flat_params: torch.cat refuses an empty list.
flat_params(model) ==
    IF model = <<>>
    THEN [status |-> "RuntimeError", value |-> <<>>]
    ELSE [status |-> "ok", value |-> Cat(model)]

\* index += params_length
NextIndexStuck(index, params_length) == index
NextIndex(index, params_length) == index + params_length

RECURSIVE UpdateFrom(_, _, _, _)
\* The loop of update_model from tensor k on: every tensor is written in turn
\* until a slice cannot be viewed in the tensor's shape.
UpdateFrom(model, new_params, k, index) ==
    IF k > Len(model)
    THEN [model |-> model, status |-> "ok"]
    ELSE LET params_length == numel(model[k].shape)
             new_param == Slice(new_params, index, index + params_length)
         IN  IF Len(new_param) # params_length
             THEN [model |-> model, status |-> "RuntimeError"]
             ELSE UpdateFrom([model EXCEPT ![k].data = new_param], new_params,
                             k + 1, NextIndex(index, params_length))

\* TRPO.update_model
update_model(model, new_params) == UpdateFrom(model, new_params, 1, 0)

RECURSIVE TotalNumel(_)
TotalNumel(model) ==
    IF model = <<>> THEN 0 ELSE numel(Head(model).shape) + TotalNumel(Tail(model))

\* flat_params(model) alone.
CallFlatParams ==
    /\ ret.op = "none"
    /\ before' = pi
    /\ ret' = [op |-> "flat_params", status |-> flat_params(pi).status,
                value |-> flat_params(pi).value]
    /\ UNCHANGED <<pi, vec>>
    /\ UNCHANGED <<learnVars, logVars>>
    /\ UNCHANGED <<algo, backtrack_iters, train_v_iters, pi_old, old_params,
                   step_size, search_dir, i, attempts, accepted, entry_params, v_steps>>

\* update_model(model, new_params) with an arbitrary flat vector.
CallUpdateModel ==
    /\ ret.op = "none"
    /\ \E v \in FlatVecs :
         /\ vec' = v
         /\ before' = pi
         /\ pi' = update_model(pi, v).model
         /\ ret' = [op |-> "update_model", status |-> update_model(pi, v).status,
                    value |-> <<>>]
    /\ UNCHANGED <<learnVars, logVars>>
    /\ UNCHANGED <<algo, backtrack_iters, train_v_iters, pi_old, old_params,
                   step_size, search_dir, i, attempts, accepted, entry_params, v_steps>>

\* update_model(model, flat_params(model))
CallRoundTrip ==
    /\ ret.op = "none"
    /\ before' = pi
    /\ LET flat == flat_params(pi)
       IN  IF flat.status # "ok"
           THEN /\ ret' = [op |-> "round_trip", status |-> flat.status, value |-> <<>>]
                /\ UNCHANGED <<pi, vec>>
           ELSE /\ vec' = flat.value
                /\ pi' = update_model(pi, flat.value).model
                /\ ret' = [op |-> "round_trip",
                           status |-> update_model(pi, flat.value).status,
                           value |-> <<>>]
    /\ UNCHANGED <<learnVars, logVars>>
    /\ UNCHANGED <<algo, backtrack_iters, train_v_iters, pi_old, old_params,
                   step_size, search_dir, i, attempts, accepted, entry_params, v_steps>>

InitParams ==
    /\ pc = "params" /\ IdleLearn /\ IdleLogger
    /\ algo = "trpo" /\ backtrack_iters = 0 /\ train_v_iters = 0
    /\ pi \in ParamSets /\ pi_old = <<>>
    /\ old_params = <<>> /\ step_size = 0 /\ search_dir = <<>>
    /\ i = 0 /\ attempts = <<>> /\ accepted = -1
    /\ entry_params = <<>> /\ v_steps = 0
    /\ IdleParams

NextParams == CallFlatParams \/ CallUpdateModel \/ CallRoundTrip

SpecParams == InitParams /\ [][NextParams]_vars

----------------------------------------------------------------------------
\* Logger (src/Logger/logger.py)
MaxLog == 2         \* at most MaxLog values are stored under one key

Keys    == {"EpRet", "EpLen"}
LogVals == {0, 1}
NoHist  == [k \in Keys |-> <<>>]
KeyLists == {<<>>} \cup {<<k>> : k \in Keys} \cup {<<k1, k2>> : k1 \in Keys, k2 \in Keys}

\* Lines 41-43 for one keyword argument k=v.
StoreKeyReset(d, k, v) ==
    [x \in DOMAIN d \cup {k} |-> IF x = k THEN <<v>> ELSE d[x]]
StoreKey(d, k, v) ==
    [x \in DOMAIN d \cup {k} |->
        IF x = k
        THEN Append(IF k \in DOMAIN d THEN d[k] ELSE <<>>, v)
        ELSE d[x]]

RECURSIVE StoreAll(_, _, _)
\* The loop of store over kwargs.items(); kw maps the keys in S to their values.
StoreAll(d, S, kw) ==
    IF S = {} THEN d
    ELSE LET k == CHOOSE x \in S : TRUE
         IN  StoreAll(StoreKey(d, k, kw[k]), S \ {k}, kw)

\* Logger.__init__: the dictionary is loaded from output_filepath when it exists.
LoggerInit ==
    /\ load_out.status = "none"
    /\ logger_dict' = IF file.exists THEN file.dict ELSE EmptyDict
    /\ hist' = IF file.exists THEN file.hist ELSE NoHist
    /\ UNCHANGED <<file, load_out>>
    /\ UNCHANGED <<learnVars, updVars, parVars>>

\* Logger.store(**kwargs)
LoggerStore ==
    /\ load_out.status = "none"
    /\ \E S \in SUBSET Keys :
         /\ \A k \in S : Len(hist[k]) < MaxLog
         /\ \E kw \in [S -> LogVals] :
              /\ logger_dict' = StoreAll(logger_dict, S, kw)
              /\ hist' = [k \in Keys |-> IF k \in S THEN Append(hist[k], kw[k])
                                                     ELSE hist[k]]
    /\ UNCHANGED <<file, load_out>>
    /\ UNCHANGED <<learnVars, updVars, parVars>>

\* Logger.dump()
LoggerDump ==
    /\ load_out.status = "none"
    /\ file' = [exists |-> TRUE, dict |-> logger_dict, hist |-> hist]
    /\ UNCHANGED <<logger_dict, hist, load_out>>
    /\ UNCHANGED <<learnVars, updVars, parVars>>

\* Logger.load_results(keys)
LoadResults ==
    /\ load_out.status = "none"
    /\ \E keys \in KeyLists :
         load_out' =
            IF \E n \in 1 .. Len(keys) : keys[n] \notin DOMAIN logger_dict
            THEN [status |-> "AssertionError", keys |-> keys, output |-> <<>>,
                  seen |-> hist]
            ELSE [status |-> "ok", keys |-> keys,
                  output |-> [n \in 1 .. Len(keys) |-> logger_dict[keys[n]]],
                  seen |-> hist]
    /\ UNCHANGED <<logger_dict, file, hist>>
    /\ UNCHANGED <<learnVars, updVars, parVars>>

InitLogger ==
    /\ pc = "logger" /\ IdleLearn /\ IdleUpdate /\ IdleParams
    /\ logger_dict = EmptyDict /\ file = NoFile /\ hist = NoHist
    /\ load_out = NoLoad

NextLogger == LoggerInit \/ LoggerStore \/ LoggerDump \/ LoadResults

SpecLogger == InitLogger /\ [][NextLogger]_vars

----------------------------------------------------------------------------
\* TRPO.update from line 206 on.
MaxBacktrack == 3   \* backtrack_iters ranges over 0..MaxBacktrack
MaxVIters    == 1   \* train_v_iters ranges over 0..MaxVIters
MaxStepSize  == 2   \* step_size ranges over 1..MaxStepSize

\* backtrack_coeff = CoeffNum / CoeffDen (0.8 by default).
CoeffNum == 4
CoeffDen == 5

RECURSIVE Pow(_, _)
Pow(b, e) == IF e = 0 THEN 1 ELSE b * Pow(b, e - 1)

\* Parameters are held in units of 1 / Scale, which makes every candidate of
\* the line search an integer vector.
Scale == Pow(CoeffDen, MaxBacktrack)

\* old_params + step_size * search_dir  (line 211)
FullStep(old, step, dir) ==
    [k \in 1 .. Len(old) |-> old[k] + Scale * step * dir[k]]

\* old_params + (self.backtrack_coeff**(i+1)) * step_size * search_dir  (line 221)
CandidateChained(old, cur, step, dir, n) ==
    [k \in 1 .. Len(old) |->
        cur[k] + Pow(CoeffNum, n + 1) * Pow(CoeffDen, MaxBacktrack - (n + 1)) * step * dir[k]]
Candidate(old, cur, step, dir, n) ==
    [k \in 1 .. Len(old) |->
        old[k] + Pow(CoeffNum, n + 1) * Pow(CoeffDen, MaxBacktrack - (n + 1)) * step * dir[k]]

\* if i == self.backtrack_iters-1  (line 245)
LastAttemptOff(n) == n = backtrack_iters
LastAttempt(n) == n = backtrack_iters - 1

\* if kl <= self.delta and improve>0  (line 239)
Accept(kl_ok, improve_pos) == kl_ok /\ improve_pos

\* Lines 206-208: snapshot of the current parameters into pi_old.
Snapshot ==
    /\ pc = "snapshot"
    /\ old_params' = flat_params(pi).value
    /\ pi_old' = update_model(pi_old, flat_params(pi).value).model
    /\ pc' = IF algo = "npg" THEN "apply" ELSE "line_search"
    /\ i' = 0
    /\ UNCHANGED <<err, steps_per_epoch, max_ep_len, epochs, epoch, t, obs, state,
                   ep_len, done, timeout, epoch_ended, env_obs, ptr, path_start,
                   query, boot, n_store, n_since_finish, n_update, at_get, phases>>
    /\ UNCHANGED <<algo, backtrack_iters, train_v_iters, pi, step_size, search_dir,
                   attempts, accepted, entry_params, v_steps>>
    /\ UNCHANGED <<parVars, logVars>>

\* Lines 210-214: the natural-gradient step, applied unconditionally.
ApplyNPG ==
    /\ pc = "apply"
    /\ pi' = update_model(pi, FullStep(old_params, step_size, search_dir)).model
    /\ phases' = Append(phases, "APPLY")
    /\ pc' = "refit"
    /\ UNCHANGED <<err, steps_per_epoch, max_ep_len, epochs, epoch, t, obs, state,
                   ep_len, done, timeout, epoch_ended, env_obs, ptr, path_start,
                   query, boot, n_store, n_since_finish, n_update, at_get>>
    /\ UNCHANGED <<algo, backtrack_iters, train_v_iters, pi_old, old_params,
                   step_size, search_dir, i, attempts, accepted, entry_params, v_steps>>
    /\ UNCHANGED <<parVars, logVars>>

\* Lines 218-251: one iteration of the backtracking loop.  kl_ok is the
\* outcome of kl <= self.delta, improve_pos that of improve > 0.
LineSearchTrial ==
    /\ pc = "line_search"
    /\ i < backtrack_iters
    /\ \E kl_ok \in BOOLEAN, improve_pos \in BOOLEAN :
         LET params == Candidate(old_params, flat_params(pi).value, step_size,
                                 search_dir, i)
             trial  == update_model(pi, params).model
         IN  /\ attempts' = Append(attempts,
                                   [params |-> flat_params(trial).value,
                                    kl_ok |-> kl_ok, improve_pos |-> improve_pos])
             /\ IF Accept(kl_ok, improve_pos)
                THEN /\ pi' = trial
                     /\ accepted' = i
                     /\ i' = i
                     /\ pc' = "refit"
                     /\ phases' = Append(phases, "LINE_SEARCH")
                ELSE /\ pi' = IF LastAttempt(i)
                              THEN update_model(trial, flat_params(pi_old).value).model
                              ELSE trial
                     /\ accepted' = accepted
                     /\ i' = i + 1
                     /\ pc' = pc
                     /\ phases' = phases
    /\ UNCHANGED <<err, steps_per_epoch, max_ep_len, epochs, epoch, t, obs, state,
                   ep_len, done, timeout, epoch_ended, env_obs, ptr, path_start,
                   query, boot, n_store, n_since_finish, n_update, at_get>>
    /\ UNCHANGED <<algo, backtrack_iters, train_v_iters, pi_old, old_params,
                   step_size, search_dir, entry_params, v_steps>>
    /\ UNCHANGED <<parVars, logVars>>

\* Line 218: range(self.backtrack_iters) is exhausted.
LineSearchExhausted ==
    /\ pc = "line_search"
    /\ i >= backtrack_iters
    /\ pc' = "refit"
    /\ phases' = Append(phases, "LINE_SEARCH")
    /\ UNCHANGED <<err, steps_per_epoch, max_ep_len, epochs, epoch, t, obs, state,
                   ep_len, done, timeout, epoch_ended, env_obs, ptr, path_start,
                   query, boot, n_store, n_since_finish, n_update, at_get>>
    /\ UNCHANGED <<updVars, parVars, logVars>>

\* Lines 257-262: one iteration of the value refit.
RefitStep ==
    /\ pc = "refit"
    /\ v_steps < train_v_iters
    /\ v_steps' = v_steps + 1
    /\ UNCHANGED learnVars
    /\ UNCHANGED <<algo, backtrack_iters, train_v_iters, pi, pi_old, old_params,
                   step_size, search_dir, i, attempts, accepted, entry_params>>
    /\ UNCHANGED <<parVars, logVars>>

\* Line 257: range(self.train_v_iters) is exhausted; update() returns.
RefitDone ==
    /\ pc = "refit"
    /\ v_steps >= train_v_iters
    /\ phases' = Append(phases, "REFIT_VALUE")
    /\ pc' = "update_done"
    /\ UNCHANGED <<err, steps_per_epoch, max_ep_len, epochs, epoch, t, obs, state,
                   ep_len, done, timeout, epoch_ended, env_obs, ptr, path_start,
                   query, boot, n_store, n_since_finish, n_update, at_get>>
    /\ UNCHANGED <<updVars, parVars, logVars>>

\* The policy's parameter layout in this specification: a bias and a weight row.
Layout == <<<<1>>, <<1, 2>>>>
LayoutSets == {m \in [1 .. Len(Layout) -> Tensors] :
                  \A k \in 1 .. Len(Layout) : m[k].shape = Layout[k]}
Fill(v) == [k \in 1 .. Len(Layout) |->
               [shape |-> Layout[k], data |-> [n \in 1 .. numel(Layout[k]) |-> v]]]
DirVals == {-1, 1}

\* The locals of update() as lines 184-205 leave them.
InitLineSearch ==
    /\ pc = "snapshot" /\ err = "none"
    /\ steps_per_epoch = 1 /\ max_ep_len = 1 /\ epochs = 1
    /\ epoch = 0 /\ t = 0
    /\ obs = NoObs /\ state = NoObs /\ env_obs = NoObs
    /\ ep_len = 0
    /\ done = FALSE /\ timeout = FALSE /\ epoch_ended = FALSE
    /\ ptr = 0 /\ path_start = 0
    /\ query = [obs |-> NoObs, env |-> NoObs]
    /\ boot = [called |-> FALSE, kind |-> "none", of |-> NoObs, next |-> NoObs,
               done |-> FALSE, timeout |-> FALSE, epoch_ended |-> FALSE,
               stores |-> 0]
    /\ n_store = 0 /\ n_since_finish = 0 /\ n_update = 1
    /\ at_get = [called |-> TRUE, ptr |-> 1, path_start |-> 1, n_store |-> 1, t |-> 0]
    /\ phases = <<"COMPUTE_GRADIENT", "SOLVE_DIRECTION", "COMPUTE_STEP">>
    /\ algo \in {"trpo", "npg"}
    /\ backtrack_iters \in 0 .. MaxBacktrack
    /\ train_v_iters \in 0 .. MaxVIters
    /\ pi \in LayoutSets
    /\ pi_old \in {Fill(v) : v \in Vals}
    /\ old_params = <<>>
    /\ step_size \in 1 .. MaxStepSize
    /\ search_dir \in [1 .. TotalNumel(Fill(0)) -> DirVals]
    /\ i = 0 /\ attempts = <<>> /\ accepted = -1
    /\ entry_params = flat_params(pi).value
    /\ v_steps = 0
    /\ IdleParams /\ IdleLogger

NextLineSearch == Snapshot \/ ApplyNPG \/ LineSearchTrial \/ LineSearchExhausted
                    \/ RefitStep \/ RefitDone

SpecLineSearch == InitLineSearch /\ [][NextLineSearch]_vars

----------------------------------------------------------------------------
\* Claims.

IsPrefix(a, b) == Len(a) <= Len(b) /\ SubSeq(b, 1, Len(a)) = a

\* The parameters the policy holds.
Current == flat_params(pi).value

\* entry + backtrack_coeff^n * step_size * search_dir, in units of 1 / Scale.
Shrunk(n) ==
    [k \in 1 .. Len(entry_params) |->
        entry_params[k]
          + Pow(CoeffNum, n) * Pow(CoeffDen, MaxBacktrack - n) * step_size * search_dir[k]]

Passed(a) == a.kl_ok /\ a.improve_pos

\* C1: when a TRPO-mode update() has completed, the policy holds either the
\* parameters of an attempt with KL <= delta and improvement > 0, or exactly
\* the parameters it held when update() began.
C1_AcceptedOrRolledBack ==
    (pc = "update_done" /\ algo = "trpo") =>
        \/ \E n \in 1 .. Len(attempts) : Passed(attempts[n]) /\ Current = attempts[n].params
        \/ Current = entry_params

\* C1 witness: a completed TRPO update whose attempts all failed after moving
\* the parameters away from the snapshot.
C1_Witness ==
    /\ pc = "update_done" /\ algo = "trpo"
    /\ accepted = -1
    /\ Len(attempts) >= 2
    /\ attempts[Len(attempts)].params # entry_params

\* The phases of update(), in order.
UpdateChain ==
    <<"COMPUTE_GRADIENT", "SOLVE_DIRECTION", "COMPUTE_STEP",
      IF algo = "npg" THEN "APPLY" ELSE "LINE_SEARCH", "REFIT_VALUE">>

\* C2: an update() that started on an exactly-full buffer never ends in an
\* exception, passes through its phases in order, and when it is done it has
\* passed through all of them and made exactly train_v_iters optimizer steps.
C2_UpdateReachesDone ==
    (at_get.called /\ at_get.ptr = steps_per_epoch) =>
        /\ pc # "raised"
        /\ IsPrefix(phases, UpdateChain)
        /\ pc = "update_done" => (phases = UpdateChain /\ v_steps = train_v_iters)

\* C3: every finish_path call gets 0 when the environment reported done on
\* that step and the critic's estimate of the next observation otherwise.
C3_BootstrapZeroIffDone ==
    boot.called =>
        /\ boot.kind = (IF boot.done THEN "zero" ELSE "critic")
        /\ boot.of = boot.next

\* C4: the policy is queried with the observation the most recent env.reset()
\* or env.step() returned.
C4_QueryUsesCurrentObs == query.obs = query.env

\* C5: store never meets a full buffer, get() only meets a full buffer that
\* holds exactly steps_per_epoch stores made since the previous get(), and
\* update() is called once, after the iteration of the epoch's last store.
C5_ExactlyFullAtGet ==
    /\ err \notin {"AssertionError:store", "AssertionError:get"}
    /\ n_store <= steps_per_epoch
    /\ n_update <= 1
    /\ pc = "update" => (n_update = 0 /\ n_store = steps_per_epoch)
    /\ at_get.called =>
          /\ at_get.ptr = steps_per_epoch
          /\ at_get.n_store = steps_per_epoch
          /\ at_get.t = steps_per_epoch - 1

\* C5 witness: update() took a full buffer of several steps.
C5_Witness ==
    /\ at_get.called
    /\ steps_per_epoch >= 2
    /\ pc = "compute_gradient"
    /\ ptr = 0

\* C10: when update() is called no stored step belongs to an unfinished path,
\* and every finish_path call closes a path of at least one stored step.
C10_PathsFinished ==
    /\ pc = "update" => (n_since_finish = 0 /\ path_start = ptr)
    /\ at_get.called => (at_get.path_start = at_get.ptr /\ at_get.ptr = steps_per_epoch)
    /\ boot.called => boot.stores >= 1

\* C10 witness: update() was called after an epoch of several paths.
C10_Witness ==
    /\ at_get.called
    /\ boot.called
    /\ boot.stores < steps_per_epoch
    /\ at_get.path_start = steps_per_epoch

\* C6: update_model fails whenever the length of new_params differs from the
\* total element count of the model's parameters.
C6_MismatchAlwaysFails ==
    (ret.op = "update_model" /\ Len(vec) # TotalNumel(before)) =>
        ret.status = "RuntimeError"

\* C7: update_model(model, flat_params(model)) succeeds and leaves every
\* parameter tensor unchanged.
C7_RoundTrip ==
    ret.op = "round_trip" =>
        /\ pi = before
        /\ before # <<>> => ret.status = "ok"

\* C7 witness: a round trip over two tensors of different sizes and contents.
C7_Witness ==
    /\ ret.op = "round_trip" /\ ret.status = "ok"
    /\ Len(before) >= 2
    /\ numel(before[1].shape) # numel(before[2].shape)
    /\ numel(before[1].shape) > 0 /\ numel(before[2].shape) > 0
    /\ before[1].data[1] # before[2].data[1]

\* C8: load_results returns, for each requested key, every value stored under
\* it in call order, and fails exactly when a requested key was never stored.
C8_LoadResults ==
    /\ load_out.status = "ok" =>
          /\ Len(load_out.output) = Len(load_out.keys)
          /\ \A n \in 1 .. Len(load_out.keys) :
                /\ load_out.output[n] = load_out.seen[load_out.keys[n]]
                /\ load_out.seen[load_out.keys[n]] # <<>>
    /\ load_out.status = "AssertionError" =>
          \E n \in 1 .. Len(load_out.keys) : load_out.seen[load_out.keys[n]] = <<>>

\* C8 witness: two keys are loaded, one of them holding two different values.
C8_Witness ==
    /\ load_out.status = "ok"
    /\ Len(load_out.keys) = 2
    /\ load_out.keys[1] # load_out.keys[2]
    /\ load_out.output[1] = <<0, 1>>

\* C9: the attempts are at most backtrack_iters, attempt n-1 writes
\* old_params + backtrack_coeff^n * step_size * search_dir computed from the
\* snapshot, the accepted attempt is the first that passed and the last that
\* was made, and the policy still holds its candidate afterwards.
C9_LineSearchOrder ==
    /\ Len(attempts) <= backtrack_iters
    /\ \A n \in 1 .. Len(attempts) : attempts[n].params = Shrunk(n)
    /\ \A n \in 1 .. Len(attempts) :
          Passed(attempts[n]) <=> (accepted = n - 1)
    /\ accepted >= 0 =>
          /\ accepted = Len(attempts) - 1
          /\ Current = Shrunk(accepted + 1)

\* C9 witness: the second attempt was accepted and update() has completed.
C9_Witness ==
    /\ pc = "update_done"
    /\ accepted = 1
    /\ attempts[1].params # attempts[2].params

====
